---- MODULE Spec2Model ----
(***************************************************************************)
(* Model of the midlevel-ir builder (value.rs, instruction.rs, function.rs, *)
(* module.rs) and of the lowering engine of main.rs.                        *)
(*                                                                          *)
(* Identifiers (InstId, BlockId, FuncId) are the 0-based usize of the       *)
(* source; TLA+ sequences are 1-based, so the element with identifier k is  *)
(* at position k + 1 of its sequence.                                       *)
(***************************************************************************)
EXTENDS Naturals, Sequences, FiniteSets, TLC

VARIABLES
    module,   \* Module.funcs: the sequence of Function records
    issued,   \* history: per function, the <<identifier, instruction>> of every add_instruction call
    last,     \* history: the builder call made last, with its arguments and result
    cg,       \* Codegen: namend, and the backend's side (slots, emitted operations)
    pc,       \* position of compile / compile_function / compile_block
    lowered   \* history: the <<function, identifier>> pairs whose lowering completed

vars == <<module, issued, last, cg, pc, lowered>>

----------------------------------------------------------------------------
(* Bounds of the builder model: functions of a module, and add_instruction and *)
(* add_block calls made on the module as a whole                              *)
MaxFuncs == 2
MaxInsts == 2
MaxBlocks == 1

----------------------------------------------------------------------------
(* value.rs, instruction.rs *)

Instruction(id) == [v |-> "Instruction", id |-> id]
ConstantInt(lit) == [v |-> "ConstantInt", lit |-> lit]
ConstantFloat(flit) == [v |-> "ConstantFloat", flit |-> flit]

Define(type_, value) == [op |-> "Define", type_ |-> type_, value |-> value]
Assign(dest, src) == [op |-> "Assign", dest |-> dest, src |-> src]
Add(dest, lhs, rhs, type_) == [op |-> "Add", dest |-> dest, lhs |-> lhs, rhs |-> rhs, type_ |-> type_]
Ret(value) == [op |-> "Ret", value |-> value]

----------------------------------------------------------------------------
(* function.rs: Block *)

Block_new_at_zero(name, start) == [name |-> name, start |-> 0, end |-> 0]

Block_new(name, start) == [name |-> name, start |-> start, end |-> start]

adjust_range_past_end(blk, inst) ==
    IF inst > blk.end THEN [blk EXCEPT !.end = inst + 2] ELSE blk

adjust_range_unguarded(blk, inst) == [blk EXCEPT !.end = inst + 1]

adjust_range(blk, inst) ==
    IF inst > blk.end THEN [blk EXCEPT !.end = inst + 1] ELSE blk

\* &func.instructions[start..end] panics when start > end or end > len
slice_ok(blk, func) == blk.start <= blk.end /\ blk.end <= Len(func.instructions)

get_instructions_from_zero(blk, func) == SubSeq(func.instructions, 1, blk.end)

get_instructions(blk, func) == SubSeq(func.instructions, blk.start + 1, blk.end)

----------------------------------------------------------------------------
(* function.rs: Function;  module.rs: Module *)

Function_new(name, ret_type) ==
    [name |-> name, ret_type |-> ret_type, instructions |-> <<>>, blocks |-> <<>>, inst_id |-> 0]

FuncNames == {"main"}
BlockNames == {"entry"}

\* the instructions the builder model appends: the builder never looks inside one
BuildInsts == {Define("Int32", ConstantInt(1)), Ret(Instruction(0))}

NoCall == [op |-> "none"]

\* the builder phase has no Codegen
NoCodegen == [namend |-> <<>>]

RECURSIVE TotalInsts(_)
TotalInsts(funcs) ==
    IF funcs = <<>> THEN 0 ELSE Len(Head(funcs).instructions) + TotalInsts(Tail(funcs))

RECURSIVE TotalBlocks(_)
TotalBlocks(funcs) ==
    IF funcs = <<>> THEN 0 ELSE Len(Head(funcs).blocks) + TotalBlocks(Tail(funcs))

InitBuild ==
    /\ module = <<>>
    /\ issued = <<>>
    /\ last = NoCall
    /\ cg = NoCodegen
    /\ pc = [at |-> "build"]
    /\ lowered = {}

\* Module::add_function(Function::new(name, Int32))
add_function(name) ==
    /\ Len(module) < MaxFuncs
    /\ module' = Append(module, Function_new(name, "Int32"))
    /\ issued' = Append(issued, <<>>)
    /\ last' = [op |-> "add_function", result |-> Len(module)]
    /\ UNCHANGED <<cg, pc, lowered>>

add_instruction_stale(f, instruction) ==
    /\ TotalInsts(module) < MaxInsts
    /\ module' = [module EXCEPT ![f].instructions = Append(@, instruction)]
    /\ issued' = [issued EXCEPT ![f] = Append(@, [id |-> module[f].inst_id, inst |-> instruction])]
    /\ last' = [op |-> "add_instruction", f |-> f, result |-> module[f].inst_id]
    /\ UNCHANGED <<cg, pc, lowered>>

\* Function::add_instruction
add_instruction(f, instruction) ==
    /\ TotalInsts(module) < MaxInsts
    /\ module' = [module EXCEPT ![f].instructions = Append(@, instruction),
                                ![f].inst_id = @ + 1]
    /\ issued' = [issued EXCEPT ![f] = Append(@, [id |-> module[f].inst_id, inst |-> instruction])]
    /\ last' = [op |-> "add_instruction", f |-> f, result |-> module[f].inst_id]
    /\ UNCHANGED <<cg, pc, lowered>>

\* Function::add_block(Block::new(name, start))
add_block(f, name, start) ==
    /\ TotalBlocks(module) < MaxBlocks
    /\ module' = [module EXCEPT ![f].blocks = Append(@, Block_new(name, start))]
    /\ last' = [op |-> "add_block", f |-> f, result |-> Len(module[f].blocks)]
    /\ UNCHANGED <<issued, cg, pc, lowered>>

\* function.get_block_mut(b).unwrap().adjust_range(inst)
AdjustRange(f, b, inst) ==
    /\ module' = [module EXCEPT ![f].blocks[b] = adjust_range(@, inst)]
    /\ last' = [op |-> "adjust_range", f |-> f, b |-> b, inst |-> inst,
                before |-> module[f].blocks[b]]
    /\ UNCHANGED <<issued, cg, pc, lowered>>

\* block.get_instructions(function), where the slice does not panic
GetInstructions(f, b) ==
    /\ slice_ok(module[f].blocks[b], module[f])
    /\ last' = [op |-> "get_instructions", f |-> f, b |-> b,
                result |-> get_instructions(module[f].blocks[b], module[f])]
    /\ UNCHANGED <<module, issued, cg, pc, lowered>>

NextBuild ==
    \/ \E name \in FuncNames : add_function(name)
    \/ \E f \in 1..Len(module) : \E instruction \in BuildInsts : add_instruction(f, instruction)
    \/ \E f \in 1..Len(module) : \E name \in BlockNames : \E start \in 0..MaxInsts :
          add_block(f, name, start)
    \/ \E f \in 1..Len(module) : \E b \in 1..Len(module[f].blocks) : \E inst \in 0..MaxInsts :
          AdjustRange(f, b, inst)
    \/ \E f \in 1..Len(module) : \E b \in 1..Len(module[f].blocks) : GetInstructions(f, b)

SpecBuild == InitBuild /\ [][NextBuild]_vars

----------------------------------------------------------------------------
(* main.rs: the backend values the engine handles (inkwell BasicValueEnum) *)

PointerValue(slot) == [k |-> "ptr", slot |-> slot]
IntValue(bits, n) == [k |-> "int", bits |-> bits, n |-> n]
FloatValue(flit) == [k |-> "float", flit |-> flit]

\* the outcome of an expect / unwrap / into_pointer_value / unreachable! that panics
Panic == [k |-> "panic"]
\* the content of a slot that was allocated and never stored to
Uninit == [k |-> "undef"]

\* Codegen { .., namend: HashMap::new() } with an empty backend module
Codegen_new == [namend |-> <<>>, slots |-> <<>>, emitted |-> <<>>]

\* HashMap::insert
Insert(map, key, value) ==
    [x \in (DOMAIN map) \cup {key} |-> IF x = key THEN value ELSE map[x]]

\* HashMap::get(..).unwrap() / .expect(..)
Lookup(namend, id) == IF id \in DOMAIN namend THEN namend[id] ELSE Panic

\* BasicValueEnum::into_pointer_value
into_pointer_value(value) == IF value.k = "ptr" THEN value ELSE Panic

to_llvm_type(ty) == IF ty = "Int32" THEN "i32" ELSE "none"

to_llvm_value(value, namend) ==
    CASE value.v = "Instruction" -> Lookup(namend, value.id)
      [] value.v = "ConstantInt" -> IntValue(64, value.lit)
      [] value.v = "ConstantFloat" -> FloatValue(value.flit)

(* What an i32 load of a slot yields.  The slots are i32 allocas; the engine  *)
(* stores i64 constants, pointers and doubles into them.  A constant reads    *)
(* back as its low 32 bits (the literals of the model are far below 2^31, so  *)
(* they read back unchanged); the low bits of a pointer or of a double, and   *)
(* an unstored slot, are whatever the target gives.                           *)
AddressBits == {4096, 8192}

Loaded(content) ==
    IF content.k = "int"
    THEN {IntValue(32, content.n)}
    ELSE {IntValue(32, g) : g \in AddressBits}

\* build_int_add on two i32 values (sums of the model stay far below 2^31)
int_add(lhs_val, rhs_val) == IntValue(32, lhs_val.n + rhs_val.n)

----------------------------------------------------------------------------
(* main.rs: compile, compile_function, compile_block *)

CurFunc == module[pc.f]
CurBlock == CurFunc.blocks[pc.b]
CurInsts == get_instructions(CurBlock, CurFunc)
CurInst == CurInsts[pc.i + 1]
CurId_from_one == CurBlock.start + pc.i + 1

\* let inst_id = InstId(range.start.0 + i)
CurId == CurBlock.start + pc.i

AtInst(op) ==
    /\ pc.at = "inst"
    /\ pc.i < Len(CurInsts)
    /\ CurInst.op = op

\* a backend operation, with the function, block and instruction it is emitted for
Here(rec) == [f |-> pc.f, b |-> pc.b, id |-> CurId] @@ rec

\* the instruction was lowered: the loop goes on with the next one
Lowered ==
    /\ pc' = [pc EXCEPT !.i = @ + 1]
    /\ lowered' = lowered \cup {<<pc.f, CurId>>}
    /\ last' = [op |-> "lower", f |-> pc.f, b |-> pc.b, id |-> CurId, inst |-> CurInst,
                ok |-> TRUE, before |-> cg, done |-> lowered]

\* a failed step that is skipped: the loop goes on with the next instruction
Aborted_skipping ==
    /\ pc' = [pc EXCEPT !.i = @ + 1]
    /\ lowered' = lowered
    /\ last' = [op |-> "lower", f |-> pc.f, b |-> pc.b, id |-> CurId, inst |-> CurInst,
                ok |-> FALSE, before |-> cg, done |-> lowered]

\* a panic: the process ends
Aborted ==
    /\ pc' = [pc EXCEPT !.at = "panic"]
    /\ lowered' = lowered
    /\ last' = [op |-> "lower", f |-> pc.f, b |-> pc.b, id |-> CurId, inst |-> CurInst,
                ok |-> FALSE, before |-> cg, done |-> lowered]

\* compile: for func in module.get_functions(); compile_function up to its loop
compile_function ==
    /\ pc.at = "function"
    /\ pc.f <= Len(module)
    /\ cg' = [cg EXCEPT !.emitted =
                Append(@, [op |-> "add_function", f |-> pc.f, name |-> module[pc.f].name,
                           ret_type |-> to_llvm_type(module[pc.f].ret_type)])]
    /\ pc' = [at |-> "block", f |-> pc.f, b |-> 1, i |-> 0]
    /\ UNCHANGED <<module, issued, last, lowered>>

\* compile returns
compile_done ==
    /\ pc.at = "function"
    /\ pc.f > Len(module)
    /\ pc' = [pc EXCEPT !.at = "done"]
    /\ UNCHANGED <<module, issued, last, cg, lowered>>

\* compile_function: one turn of its loop up to compile_block's get_instructions
open_block ==
    /\ pc.at = "block"
    /\ pc.b <= Len(CurFunc.blocks)
    /\ cg' = [cg EXCEPT !.emitted =
                Append(@, [op |-> "append_basic_block", f |-> pc.f, b |-> pc.b,
                           name |-> CurBlock.name])]
    /\ pc' = [pc EXCEPT !.at = IF slice_ok(CurBlock, CurFunc) THEN "inst" ELSE "panic",
                        !.i = 0]
    /\ UNCHANGED <<module, issued, last, lowered>>

\* compile_function returns
end_function ==
    /\ pc.at = "block"
    /\ pc.b > Len(CurFunc.blocks)
    /\ pc' = [at |-> "function", f |-> pc.f + 1, b |-> 1, i |-> 0]
    /\ UNCHANGED <<module, issued, last, cg, lowered>>

\* compile_block returns
end_block ==
    /\ pc.at = "inst"
    /\ pc.i = Len(CurInsts)
    /\ pc' = [pc EXCEPT !.at = "block", !.b = @ + 1, !.i = 0]
    /\ UNCHANGED <<module, issued, last, cg, lowered>>

LowerDefine ==
    /\ AtInst("Define")
    /\ LET slot == Len(cg.slots) + 1
           llvm_value == PointerValue(slot)
           alloca == Here([op |-> "alloca", type_ |-> to_llvm_type(CurInst.type_), slot |-> slot])
           value == to_llvm_value(CurInst.value, cg.namend)
           store == Here([op |-> "store", ptr |-> llvm_value, value |-> value])
       IN  IF value = Panic
           THEN /\ cg' = [cg EXCEPT !.slots = Append(@, Uninit),
                                    !.emitted = Append(@, alloca)]
                /\ Aborted
           ELSE /\ cg' = [namend |-> Insert(cg.namend, CurId, llvm_value),
                          slots |-> Append(cg.slots, value),
                          emitted |-> cg.emitted \o <<alloca, store>>]
                /\ Lowered
    /\ UNCHANGED <<module, issued>>

\* an Assign arm that records its identifier in namend, as the Define arm does
LowerAssign_recording ==
    /\ AtInst("Assign")
    /\ LET dest == to_llvm_value(CurInst.dest, cg.namend)
           src == IF dest = Panic THEN Panic ELSE to_llvm_value(CurInst.src, cg.namend)
           ptr == IF src = Panic THEN Panic ELSE into_pointer_value(dest)
           store == Here([op |-> "store", ptr |-> ptr, value |-> src])
       IN  IF ptr = Panic
           THEN /\ cg' = cg
                /\ Aborted
           ELSE /\ cg' = [cg EXCEPT !.slots[ptr.slot] = src,
                                    !.namend = Insert(@, CurId, ptr),
                                    !.emitted = Append(@, store)]
                /\ Lowered
    /\ UNCHANGED <<module, issued>>

LowerAssign ==
    /\ AtInst("Assign")
    /\ LET dest == to_llvm_value(CurInst.dest, cg.namend)
           src == IF dest = Panic THEN Panic ELSE to_llvm_value(CurInst.src, cg.namend)
           ptr == IF src = Panic THEN Panic ELSE into_pointer_value(dest)
           store == Here([op |-> "store", ptr |-> ptr, value |-> src])
       IN  IF ptr = Panic
           THEN /\ cg' = cg
                /\ Aborted
           ELSE /\ cg' = [cg EXCEPT !.slots[ptr.slot] = src,
                                    !.emitted = Append(@, store)]
                /\ Lowered
    /\ UNCHANGED <<module, issued>>

\* the pointer an Add's dest, lhs or rhs reference resolves to
AddPointer(namend, id) ==
    IF Lookup(namend, id) = Panic THEN Panic ELSE into_pointer_value(Lookup(namend, id))

\* the values the lhs / rhs match of the Add arm can produce
AddOperand(value, c) ==
    CASE value.v = "Instruction" ->
            IF AddPointer(c.namend, value.id) = Panic
            THEN {Panic}
            ELSE Loaded(c.slots[AddPointer(c.namend, value.id).slot])
      [] value.v = "ConstantInt" -> {IntValue(32, value.lit)}
      [] value.v = "ConstantFloat" -> {Panic}

\* the build_load the match emits for an operand that resolved to val
AddLoad(value, val, c, name) ==
    IF value.v = "Instruction" /\ val # Panic
    THEN <<Here([op |-> "load", type_ |-> "i32", ptr |-> AddPointer(c.namend, value.id),
                 name |-> name])>>
    ELSE <<>>

LowerAdd ==
    /\ AtInst("Add")
    /\ LET dest_ptr == IF CurInst.dest.v = "Instruction"
                       THEN AddPointer(cg.namend, CurInst.dest.id)
                       ELSE Panic
       IN  IF dest_ptr = Panic
           THEN /\ cg' = cg
                /\ Aborted
           ELSE \E lhs_val \in AddOperand(CurInst.lhs, cg) :
                   IF lhs_val = Panic
                   THEN /\ cg' = cg
                        /\ Aborted
                   ELSE \E rhs_val \in AddOperand(CurInst.rhs, cg) :
                      LET lhs_load == AddLoad(CurInst.lhs, lhs_val, cg, "lhs_load")
                          rhs_load == AddLoad(CurInst.rhs, rhs_val, cg, "rhs_load")
                      IN  IF rhs_val = Panic
                          THEN /\ cg' = [cg EXCEPT !.emitted = @ \o lhs_load]
                               /\ Aborted
                          ELSE LET sum == int_add(lhs_val, rhs_val)
                                   add == Here([op |-> "add", lhs |-> lhs_val, rhs |-> rhs_val])
                                   store == Here([op |-> "store", ptr |-> dest_ptr, value |-> sum])
                               IN  /\ cg' = [namend |-> Insert(cg.namend, CurId, sum),
                                             slots |-> [cg.slots EXCEPT ![dest_ptr.slot] = sum],
                                             emitted |-> cg.emitted \o lhs_load \o rhs_load
                                                           \o <<add, store>>]
                                   /\ Lowered
    /\ UNCHANGED <<module, issued>>

LowerRet ==
    /\ AtInst("Ret")
    /\ LET ret_value == to_llvm_value(CurInst.value, cg.namend)
       IN  IF ret_value = Panic
           THEN /\ cg' = cg
                /\ Aborted
           ELSE /\ cg' = [cg EXCEPT !.emitted =
                            Append(@, Here([op |-> "ret", value |-> ret_value]))]
                /\ Lowered
    /\ UNCHANGED <<module, issued>>

----------------------------------------------------------------------------
(* The modules handed to compile *)

\* instructions of a function of the general family; literals of a ConstantInt
MaxLen == 3
MaxConst == 1

Lits == 1..MaxConst
Refs == 0..(MaxLen - 1)

Vals == {Instruction(i) : i \in Refs} \cup {ConstantInt(c) : c \in Lits}
           \cup {ConstantFloat("1.5")}

\* every instruction over Vals
ProbeInsts ==
    {Define("Int32", v) : v \in Vals}
      \cup {Assign(d, v) : d \in Vals, v \in Vals}
      \cup {Add(d, l, r, "Int32") : d \in Vals, l \in Vals, r \in Vals}
      \cup {Ret(v) : v \in Vals}

\* the instructions that lead up to a probe
StemInsts ==
    {Define("Int32", ConstantInt(c)) : c \in Lits}
      \cup {Add(Instruction(0), Instruction(0), ConstantInt(c), "Int32") : c \in Lits}
      \cup {Ret(Instruction(0))}

\* Block::new(name, start) extended by one adjust_range call to [start, end)
BlockOver(name, start, end) == adjust_range(Block_new(name, start), end - 1)

\* a function as the builder leaves it after appending insts
Built(name, insts, blocks) ==
    [name |-> name, ret_type |-> "Int32", instructions |-> insts, blocks |-> blocks,
     inst_id |-> Len(insts)]

\* one function, one block over all of it
Whole(insts) == Built("main", insts, <<BlockOver("entry", 0, Len(insts))>>)

Stems(n) == [1..n -> StemInsts]

\* a stem of 1 .. MaxLen - 1 instructions, then any instruction
ProbeModules ==
    {<<Whole(Append(s, p))>> : s \in UNION {Stems(n) : n \in 1..(MaxLen - 1)}, p \in ProbeInsts}

\* a second function lowered after a first that left a slot and a sum in namend
FirstFunc ==
    Whole(<<Define("Int32", ConstantInt(1)),
            Add(Instruction(0), Instruction(0), ConstantInt(1), "Int32")>>)

TwoFuncModules ==
    {<<FirstFunc, [Whole(insts) EXCEPT !.name = "aux"]>> :
        insts \in {<<p, s>> : p \in ProbeInsts, s \in StemInsts}
                    \cup {<<s, p>> : p \in ProbeInsts, s \in StemInsts}}

\* two blocks of two instructions, and an empty block before them
TwoBlockModules ==
    {<<Built("main", s,
             <<Block_new("empty", 0), BlockOver("entry", 0, 2), BlockOver("next", 2, 4)>>)>> :
        s \in [1..4 -> StemInsts]}

\* main's function: Define a = X; Define b = a; Add(dest a, lhs, K); Ret
AddComposition(X, K, lhs, ret) ==
    <<Whole(<<Define("Int32", ConstantInt(X)),
              Define("Int32", Instruction(0)),
              Add(Instruction(0), Instruction(lhs), ConstantInt(K), "Int32"),
              Ret(Instruction(ret))>>)>>

AddCompositionModules ==
    {AddComposition(X, K, lhs, ret) :
        X \in Lits \cup {69}, K \in Lits \cup {2}, lhs \in {0, 1}, ret \in {0, 2}}

Modules == ProbeModules \cup TwoFuncModules \cup TwoBlockModules \cup AddCompositionModules

Init ==
    /\ module \in Modules
    /\ issued = <<>>
    /\ last = NoCall
    /\ cg = Codegen_new
    /\ pc = [at |-> "function", f |-> 1, b |-> 1, i |-> 0]
    /\ lowered = {}

Next ==
    \/ compile_function
    \/ open_block
    \/ LowerDefine
    \/ LowerAssign
    \/ LowerAdd
    \/ LowerRet
    \/ end_block
    \/ end_function
    \/ compile_done

Spec == Init /\ [][Next]_vars

----------------------------------------------------------------------------
(* Claims about the builder, checked under SpecBuild *)

\* C1: the k-th add_instruction call on a function (from 0) returns identifier k,
\* the number of instructions appended before it, so the identifiers issued are
\* 0, 1, .., N-1 in call order, and stream position k holds the instruction
\* whose append returned k.
C1_IdentifiersCountAppends ==
    \A f \in 1..Len(module) :
        /\ Len(module[f].instructions) = Len(issued[f])
        /\ \A k \in 1..Len(issued[f]) :
              /\ issued[f][k].id = k - 1
              /\ module[f].instructions[k] = issued[f][k].inst

C1_Witness ==
    /\ last.op = "add_instruction"
    /\ last.result = 1
    /\ Len(issued[last.f]) = 2
    /\ issued[last.f][1].inst # issued[last.f][2].inst

Max(a, b) == IF a >= b THEN a ELSE b

\* C2: adjust_range(k) leaves the start of the block unchanged and sets its end
\* to max(end, k + 1), also when k equals the current end.
C2_EndIsMax ==
    last.op = "adjust_range" =>
        /\ module[last.f].blocks[last.b].start = last.before.start
        /\ module[last.f].blocks[last.b].end = Max(last.before.end, last.inst + 1)

\* C8: for a block whose range ends within the stream, get_instructions returns
\* end - start instructions, the i-th of them the instruction whose append
\* returned identifier start + i; an unextended block yields none.
C8_SliceIsRange ==
    last.op = "get_instructions" =>
        LET blk == module[last.f].blocks[last.b]
        IN  /\ Len(last.result) = blk.end - blk.start
            /\ \A i \in 1..Len(last.result) :
                  /\ \E j \in 1..Len(issued[last.f]) : issued[last.f][j].id = blk.start + i - 1
                  /\ \A j \in 1..Len(issued[last.f]) :
                        issued[last.f][j].id = blk.start + i - 1 =>
                            last.result[i] = issued[last.f][j].inst

C8_Witness ==
    /\ last.op = "get_instructions"
    /\ Len(last.result) = 2
    /\ last.result[1] # last.result[2]

\* C9: after adjust_range(k) a second adjust_range(k) changes nothing; a call
\* with an identifier the range already covers changes nothing; and no call
\* moves the start or lowers the end.
C9_ExtendOnly ==
    last.op = "adjust_range" =>
        LET now == module[last.f].blocks[last.b]
        IN  /\ adjust_range(now, last.inst) = now
            /\ (last.before.start <= last.inst /\ last.inst < last.before.end) => now = last.before
            /\ now.start = last.before.start
            /\ now.end >= last.before.end

C9_Witness ==
    /\ last.op = "adjust_range"
    /\ last.before.start <= last.inst
    /\ last.inst < last.before.end

----------------------------------------------------------------------------
(* Claims about lowering, checked under Spec *)

InstOperands(inst) ==
    CASE inst.op = "Define" -> {inst.value}
      [] inst.op = "Assign" -> {inst.dest, inst.src}
      [] inst.op = "Add" -> {inst.dest, inst.lhs, inst.rhs}
      [] inst.op = "Ret" -> {inst.value}

RefIds(inst) == {v.id : v \in {o \in InstOperands(inst) : o.v = "Instruction"}}

\* C3: an instruction with an operand Instruction(id), where id was not lowered
\* earlier in the same function, is never lowered: lowering aborts at it.
C3_DefinitionBeforeUse ==
    (last.op = "lower" /\ last.ok) =>
        \A id \in RefIds(last.inst) : <<last.f, id>> \in last.done

IsRetOf1(o) == o.op = "ret" /\ o.f = 1
\* the return operations emitted for the first function
RetOps == SelectSeq(cg.emitted, IsRetOf1)

ReturnsInt(n) ==
    /\ Len(RetOps) = 1
    /\ RetOps[1].value.k = "int"
    /\ RetOps[1].value.n = n

RoundTrip(C) == <<Whole(<<Define("Int32", ConstantInt(C)), Ret(Instruction(0))>>)>>

\* C4: the function lowered from Define(Int32, ConstantInt(C)); Ret(Instruction(0))
\* returns the integer C.
C4_RoundTrip ==
    \A C \in Lits : (pc.at = "done" /\ module = RoundTrip(C)) => ReturnsInt(C)

\* C5: the function lowered from Define a = X; Define b = a;
\* Add(dest a, left a, right K); Ret(a) returns X + K.
C5_AddComposition ==
    \A X \in Lits \cup {69}, K \in Lits \cup {2} :
        (pc.at = "done" /\ module = AddComposition(X, K, 0, 0)) => ReturnsInt(X + K)

\* a Ret of the block of the last step was lowered before that step
RetBefore ==
    \E i \in 1..Len(last.before.emitted) :
        /\ last.before.emitted[i].op = "ret"
        /\ last.before.emitted[i].f = last.f
        /\ last.before.emitted[i].b = last.b

\* C6: for an instruction that follows a lowered Ret in its block, lowering emits
\* no backend operation and records no map entry.
C6_NothingAfterRet ==
    (last.op = "lower" /\ RetBefore) =>
        /\ cg.emitted = last.before.emitted
        /\ cg.namend = last.before.namend

\* instruction id of function f is an `op` and was lowered before the last step
LoweredAs(id, op) ==
    /\ <<last.f, id>> \in last.done
    /\ id < Len(module[last.f].instructions)
    /\ module[last.f].instructions[id + 1].op = op

SumRef(v) == v.v = "Instruction" /\ LoweredAs(v.id, "Add")
SlotRef(v) == v.v = "Instruction" /\ LoweredAs(v.id, "Define")
Operable(v) == v.v = "ConstantInt" \/ SlotRef(v) \/ SumRef(v)

\* the operations the last step emitted
NewOps == SubSeq(cg.emitted, Len(last.before.emitted) + 1, Len(cg.emitted))

Emits(op, field, value) ==
    \E i \in 1..Len(NewOps) :
        /\ NewOps[i].op = op
        /\ NewOps[i][field] = value

SumOf(v) == last.before.namend[v.id]

\* C7: an instruction that references the identifier of an Add lowered earlier in
\* its function, as the value of a Define, the source of an Assign, the operand
\* of a Ret or the left or right operand of an Add, is lowered with the sum the
\* Add computed in that place.
C7_SumInEveryPosition ==
    last.op = "lower" =>
        LET inst == last.inst
        IN  /\ (inst.op = "Define" /\ SumRef(inst.value)) =>
                  (last.ok /\ Emits("store", "value", SumOf(inst.value)))
            /\ (inst.op = "Assign" /\ SlotRef(inst.dest) /\ SumRef(inst.src)) =>
                  (last.ok /\ Emits("store", "value", SumOf(inst.src)))
            /\ (inst.op = "Ret" /\ SumRef(inst.value)) =>
                  (last.ok /\ Emits("ret", "value", SumOf(inst.value)))
            /\ (inst.op = "Add" /\ SlotRef(inst.dest) /\ SumRef(inst.lhs) /\ Operable(inst.rhs)) =>
                  (last.ok /\ Emits("add", "lhs", SumOf(inst.lhs)))
            /\ (inst.op = "Add" /\ SlotRef(inst.dest) /\ Operable(inst.lhs) /\ SumRef(inst.rhs)) =>
                  (last.ok /\ Emits("add", "rhs", SumOf(inst.rhs)))

\* the same without the operands of an Add
SumInDefineAssignRet ==
    last.op = "lower" =>
        LET inst == last.inst
        IN  /\ (inst.op = "Define" /\ SumRef(inst.value)) =>
                  (last.ok /\ Emits("store", "value", SumOf(inst.value)))
            /\ (inst.op = "Assign" /\ SlotRef(inst.dest) /\ SumRef(inst.src)) =>
                  (last.ok /\ Emits("store", "value", SumOf(inst.src)))
            /\ (inst.op = "Ret" /\ SumRef(inst.value)) =>
                  (last.ok /\ Emits("ret", "value", SumOf(inst.value)))

\* the slot allocated by the latest lowering of Define d of the function of the last step
SlotCreatedBy(d) ==
    LET em == last.before.emitted
        allocas == {i \in 1..Len(em) : em[i].op = "alloca" /\ em[i].f = last.f /\ em[i].id = d}
    IN  em[CHOOSE i \in allocas : \A j \in allocas : j <= i].slot

Resolves(v) == v.v = "Instruction" => v.id \in DOMAIN last.before.namend

\* C10: an Assign whose dest is Instruction(d), d a Define lowered earlier in
\* the function, and whose src resolves, leaves the slot that Define created
\* holding the resolved src, every other slot as it was and namend as it was.
C10_AssignOverwrites ==
    (last.op = "lower" /\ last.inst.op = "Assign" /\ SlotRef(last.inst.dest)
        /\ Resolves(last.inst.src)) =>
        LET slot == SlotCreatedBy(last.inst.dest.id)
        IN  /\ last.ok
            /\ cg.slots[slot] = to_llvm_value(last.inst.src, last.before.namend)
            /\ DOMAIN cg.slots = DOMAIN last.before.slots
            /\ \A s \in DOMAIN cg.slots : s # slot => cg.slots[s] = last.before.slots[s]
            /\ cg.namend = last.before.namend

C10_Witness ==
    /\ last.op = "lower"
    /\ last.inst.op = "Assign"
    /\ SlotRef(last.inst.dest)
    /\ last.ok
    /\ Len(cg.slots) >= 2
    /\ cg.slots[SlotCreatedBy(last.inst.dest.id)] # last.before.slots[SlotCreatedBy(last.inst.dest.id)]

\* the operations emitted for instruction id of function f
OpsOf(f, id) ==
    {i \in 1..Len(cg.emitted) :
        /\ cg.emitted[i].op \in {"alloca", "store", "load", "add", "ret"}
        /\ cg.emitted[i].f = f
        /\ cg.emitted[i].id = id}

\* namend[id] is what instruction id of function f produced: the slot of a
\* Define's alloca, the sum an Add stored
EntryOf(f, id) ==
    LET inst == module[f].instructions[id + 1]
    IN  IF inst.op = "Define"
        THEN \E i \in OpsOf(f, id) :
                /\ cg.emitted[i].op = "alloca"
                /\ cg.namend[id] = PointerValue(cg.emitted[i].slot)
        ELSE \E i \in OpsOf(f, id) :
                /\ cg.emitted[i].op = "store"
                /\ cg.namend[id] = cg.emitted[i].value
                /\ cg.namend[id].k = "int"

\* C11: while a function is lowered, namend has an entry for identifier j
\* exactly when instruction j of that function was lowered and is a Define or
\* an Add; the entry of a Define is the handle of the slot it allocated, a slot
\* no earlier step allocated, the entry of an Add is its sum, and an Assign or
\* a Ret leaves namend as it was.
C11_MapTracksFunction ==
    /\ pc.at \in {"block", "inst"} =>
          /\ \A j \in DOMAIN cg.namend :
                /\ <<pc.f, j>> \in lowered
                /\ j < Len(module[pc.f].instructions)
                /\ module[pc.f].instructions[j + 1].op \in {"Define", "Add"}
                /\ EntryOf(pc.f, j)
          /\ \A j \in 0..(Len(module[pc.f].instructions) - 1) :
                (<<pc.f, j>> \in lowered
                    /\ module[pc.f].instructions[j + 1].op \in {"Define", "Add"})
                  => j \in DOMAIN cg.namend
    /\ (last.op = "lower" /\ last.ok /\ last.inst.op = "Define") =>
          /\ cg.namend[last.id].k = "ptr"
          /\ cg.namend[last.id].slot \notin DOMAIN last.before.slots
    /\ (last.op = "lower" /\ last.inst.op \in {"Assign", "Ret"}) =>
          cg.namend = last.before.namend

\* the same for a module of one function
MapTracksOnlyFunction == Len(module) = 1 => C11_MapTracksFunction

\* a destination that does not resolve to a storage handle: a constant, an
\* identifier without map entry, the identifier of an earlier Add
BadDest(v) ==
    \/ v.v # "Instruction"
    \/ v.id \notin DOMAIN last.before.namend
    \/ SumRef(v)

AbortedOnBadDest ==
    (last.op = "lower" /\ last.inst.op \in {"Assign", "Add"} /\ BadDest(last.inst.dest)) =>
        /\ ~last.ok
        /\ pc.at = "panic"
        /\ cg = last.before

\* C12: an Assign or Add whose destination is a constant, an identifier with no
\* map entry or the identifier of an earlier Add ends lowering with a fatal
\* error: nothing is emitted or stored for it, and no step follows the error.
C12_BadDestinationAborts == []AbortedOnBadDest /\ [][pc.at # "panic"]_vars

\* a bad destination met while an instruction and a block are still to come
C12_Witness ==
    /\ last.op = "lower"
    /\ last.inst.op \in {"Assign", "Add"}
    /\ BadDest(last.inst.dest)
    /\ pc.at = "panic"
    /\ module[last.f].blocks[last.b].end > last.id + 1
    /\ Len(module[last.f].blocks) > last.b

\* C16: a Define whose value is Instruction(a), a an earlier Define whose slot
\* holds an integer, leaves its new slot holding that integer.
C16_DefineCopiesContent ==
    (last.op = "lower" /\ last.ok /\ last.inst.op = "Define" /\ SlotRef(last.inst.value)
        /\ last.before.slots[SlotCreatedBy(last.inst.value.id)].k = "int") =>
        /\ cg.slots[cg.namend[last.id].slot].k = "int"
        /\ cg.slots[cg.namend[last.id].slot].n
              = last.before.slots[SlotCreatedBy(last.inst.value.id)].n

InstOps == {"alloca", "store", "load", "add", "ret"}

\* the operations are emitted function by function, within a function block by
\* block, within a block by increasing identifier
EmittedInOrder ==
    \A i, j \in 1..Len(cg.emitted) :
        i < j =>
            LET x == cg.emitted[i]
                y == cg.emitted[j]
            IN  /\ x.f <= y.f
                /\ (x.f = y.f /\ x.op # "add_function") => y.op # "add_function"
                /\ (x.f = y.f /\ x.op # "add_function" /\ y.op # "add_function") => x.b <= y.b
                /\ (x.f = y.f /\ x.op \in InstOps /\ y.op \in InstOps /\ x.b = y.b) => x.id <= y.id
                /\ (x.f = y.f /\ x.op \in InstOps /\ y.op = "append_basic_block") => x.b < y.b

NonOverlapping(func) ==
    \A a, b \in 1..Len(func.blocks) :
        a < b => func.blocks[a].end <= func.blocks[b].start

\* the operations of one instruction are emitted by one step of one block
LoweredOnce ==
    \A i, j \in 1..Len(cg.emitted) :
        (/\ i < j
         /\ cg.emitted[i].op \in InstOps
         /\ cg.emitted[j].op \in InstOps
         /\ cg.emitted[i].f = cg.emitted[j].f
         /\ cg.emitted[i].id = cg.emitted[j].id
         /\ NonOverlapping(module[cg.emitted[i].f])) =>
            /\ cg.emitted[i].b = cg.emitted[j].b
            /\ \A k \in i..j : cg.emitted[k].op \in InstOps /\ cg.emitted[k].id = cg.emitted[i].id

\* C17: functions are lowered in module order, blocks in creation order,
\* instructions of a block in increasing identifier order; the identifier the
\* engine gives the i-th instruction of a block is its position in the stream,
\* the identifier add_instruction returned for it; with non-overlapping ranges
\* no instruction is lowered twice.
C17_LoweringOrder ==
    /\ EmittedInOrder
    /\ last.op = "lower" =>
          /\ last.id < Len(module[last.f].instructions)
          /\ last.inst = module[last.f].instructions[last.id + 1]
          /\ module[last.f].blocks[last.b].start <= last.id
          /\ last.id < module[last.f].blocks[last.b].end
    /\ LoweredOnce

\* a function of two non-empty blocks lowered to its end
C17_Witness ==
    /\ pc.at = "done"
    /\ Len(module[1].blocks) = 3
    /\ lowered = {<<1, 0>>, <<1, 1>>, <<1, 2>>, <<1, 3>>}

----------------------------------------------------------------------------
(* module.rs, function.rs: handles.  The builder API used through the handles *)
(* it returns, with blocks opened at the current stream length.               *)

MaxHandleFuncs == 2
MaxHandleBlocks == 2
MaxHandleInsts == 2

None == [k |-> "None"]
Some(x) == [k |-> "Some", x |-> x]

\* the name given to the n-th function / block created, format!("f{n}")
FuncNameOf(n) == <<"f", n>>
BlockNameOf(n) == <<"b", n>>

\* the builder never looks inside an instruction
HandleInst == Ret(ConstantInt(0))

get_function_next(funcs, id) == IF id + 1 < Len(funcs) THEN Some(funcs[id + 2]) ELSE None

\* Module::get_function / get_function_mut: self.funcs.get(id.0)
get_function(funcs, id) == IF id < Len(funcs) THEN Some(funcs[id + 1]) ELSE None

\* Function::get_block / get_block_mut: self.blocks.get(id.0)
get_block(func, id) == IF id < Len(func.blocks) THEN Some(func.blocks[id + 1]) ELSE None

\* Function::last_block
last_block(func) == IF func.blocks = <<>> THEN None ELSE Some(Len(func.blocks) - 1)

\* the identifiers add_instruction of this function has returned so far
Returned(func) == {n \in 0..Len(func.instructions) : n < func.inst_id}

\* module.add_function(Function::new(name, Int32))
Module_add_function ==
    /\ Len(module) < MaxHandleFuncs
    /\ module' = Append(module, Function_new(FuncNameOf(Len(module)), "Int32"))
    /\ issued' = Append(issued, <<>>)
    /\ last' = [op |-> "add_function", result |-> Len(module)]
    /\ UNCHANGED <<cg, pc, lowered>>

\* module.get_function_mut(h).unwrap().add_instruction(instruction)
Function_add_instruction(h, instruction) ==
    /\ TotalInsts(module) < MaxHandleInsts
    /\ get_function(module, h) # None
    /\ module' = [module EXCEPT ![h + 1].instructions = Append(@, instruction),
                                ![h + 1].inst_id = @ + 1]
    /\ issued' = [issued EXCEPT ![h + 1] = Append(@, [id |-> module[h + 1].inst_id,
                                                     inst |-> instruction])]
    /\ last' = [op |-> "add_instruction", h |-> h, result |-> module[h + 1].inst_id]
    /\ UNCHANGED <<cg, pc, lowered>>

\* function.add_block(Block::new(name, InstId(current stream length)))
Function_add_block(h) ==
    /\ TotalBlocks(module) < MaxHandleBlocks
    /\ get_function(module, h) # None
    /\ module' = [module EXCEPT ![h + 1].blocks =
                     Append(@, Block_new(BlockNameOf(Len(@)), Len(module[h + 1].instructions)))]
    /\ last' = [op |-> "add_block", h |-> h, result |-> Len(module[h + 1].blocks)]
    /\ UNCHANGED <<issued, cg, pc, lowered>>

\* function.get_block_mut(b).unwrap().adjust_range(inst), inst a returned identifier
Block_adjust_range(h, b, inst) ==
    /\ get_function(module, h) # None
    /\ get_block(module[h + 1], b) # None
    /\ inst \in Returned(module[h + 1])
    /\ module' = [module EXCEPT ![h + 1].blocks[b + 1] = adjust_range(@, inst)]
    /\ last' = [op |-> "adjust_range", h |-> h, b |-> b, inst |-> inst]
    /\ UNCHANGED <<issued, cg, pc, lowered>>

\* module.get_function(h), any index
Module_get_function(h) ==
    /\ last' = [op |-> "get_function", h |-> h, result |-> get_function(module, h)]
    /\ UNCHANGED <<module, issued, cg, pc, lowered>>

\* function.get_block(b), any index
Function_get_block(h, b) ==
    /\ get_function(module, h) # None
    /\ last' = [op |-> "get_block", h |-> h, b |-> b, result |-> get_block(module[h + 1], b)]
    /\ UNCHANGED <<module, issued, cg, pc, lowered>>

NextHandles ==
    \/ Module_add_function
    \/ \E h \in 0..Len(module) : Function_add_instruction(h, HandleInst)
    \/ \E h \in 0..Len(module) : Function_add_block(h)
    \/ \E h \in 0..Len(module) : \E b \in 0..MaxHandleBlocks : \E inst \in 0..MaxHandleInsts :
          Block_adjust_range(h, b, inst)
    \/ \E h \in 0..(Len(module) + 1) : Module_get_function(h)
    \/ \E h \in 0..Len(module) : \E b \in 0..(MaxHandleBlocks + 1) : Function_get_block(h, b)

SpecHandles == InitBuild /\ [][NextHandles]_vars

\* every index below the length looks up the element created under that index,
\* every other index looks up nothing
LookupsByPosition ==
    /\ \A h \in 0..(Len(module) + 1) :
          IF h < Len(module)
          THEN get_function(module, h).k = "Some" /\ get_function(module, h).x.name = FuncNameOf(h)
          ELSE get_function(module, h) = None
    /\ \A f \in 1..Len(module) : \A b \in 0..(Len(module[f].blocks) + 1) :
          IF b < Len(module[f].blocks)
          THEN get_block(module[f], b).k = "Some" /\ get_block(module[f], b).x.name = BlockNameOf(b)
          ELSE get_block(module[f], b) = None

\* C13: add_function / add_block return the number of elements added before;
\* whatever is called afterwards, a returned handle looks up the element it was
\* returned for, the elements stand in insertion order, and an index never
\* returned looks up None.
C13_HandlesStable ==
    /\ last.op = "add_function" =>
          /\ last.result = Len(module) - 1
          /\ module[last.result + 1].name = FuncNameOf(last.result)
    /\ last.op = "add_block" =>
          /\ last.result = Len(module[last.h + 1].blocks) - 1
          /\ module[last.h + 1].blocks[last.result + 1].name = BlockNameOf(last.result)
    /\ LookupsByPosition
    /\ last.op = "get_function" =>
          last.result = IF last.h < Len(module) THEN Some(module[last.h + 1]) ELSE None
    /\ last.op = "get_block" =>
          last.result = IF last.b < Len(module[last.h + 1].blocks)
                        THEN Some(module[last.h + 1].blocks[last.b + 1]) ELSE None

\* the first block looked up after it grew, a second block and a second function
\* were added
C13_Witness ==
    /\ last.op = "get_block"
    /\ last.h = 0
    /\ last.b = 0
    /\ last.result.k = "Some"
    /\ last.result.x.name = BlockNameOf(0)
    /\ last.result.x.end = 2
    /\ Len(module) = 2
    /\ Len(module[1].blocks) = 2

\* C18: with blocks opened at the current stream length and adjust_range given
\* returned identifiers only, every block has start <= end <= stream length.
C18_RangesWithinStream ==
    \A f \in 1..Len(module) : \A b \in 1..Len(module[f].blocks) :
        slice_ok(module[f].blocks[b], module[f])

\* an earlier block extended to the end of the stream, over a later block
C18_Witness ==
    /\ last.op = "adjust_range"
    /\ last.b = 0
    /\ Len(module[last.h + 1].blocks) = 2
    /\ module[last.h + 1].blocks[1].end = Len(module[last.h + 1].instructions)
    /\ module[last.h + 1].blocks[2].start < module[last.h + 1].blocks[1].end

----------------------------------------------------------------------------
(* main.rs 188-220: the builder convention.  A block is opened at the current *)
(* stream length; every add_instruction is followed by one adjust_range, with *)
(* the identifier returned, on the block most recently created.               *)

MaxAppends == 4

\* let id = function.add_instruction(instruction);
\* function.get_block_mut(handle of the newest block).unwrap().adjust_range(id);
add_instruction_adjust_range(h, instruction) ==
    /\ TotalInsts(module) < MaxAppends
    /\ get_function(module, h) # None
    /\ last_block(module[h + 1]) # None
    /\ LET id == module[h + 1].inst_id
           b == last_block(module[h + 1]).x
       IN  /\ module' = [module EXCEPT ![h + 1].instructions = Append(@, instruction),
                                       ![h + 1].inst_id = @ + 1,
                                       ![h + 1].blocks[b + 1] = adjust_range(@, id)]
           /\ issued' = [issued EXCEPT ![h + 1] = Append(@, [id |-> id, inst |-> instruction])]
           /\ last' = [op |-> "append", h |-> h, b |-> b, result |-> id]
    /\ UNCHANGED <<cg, pc, lowered>>

NextConvention ==
    \/ Module_add_function
    \/ \E h \in 0..Len(module) : Function_add_block(h)
    \/ \E h \in 0..Len(module) : add_instruction_adjust_range(h, HandleInst)

SpecConvention == InitBuild /\ [][NextConvention]_vars

\* C14: under the builder convention, of two blocks of a function the one
\* created first ends where or before the other starts.
C14_RangesInCreationOrder ==
    \A f \in 1..Len(module) : NonOverlapping(module[f])

\* two blocks of one function, each grown by two appends
C14_Witness ==
    /\ last.op = "append"
    /\ Len(module[last.h + 1].blocks) = 2
    /\ module[last.h + 1].blocks[1] = [name |-> BlockNameOf(0), start |-> 0, end |-> 2]
    /\ module[last.h + 1].blocks[2] = [name |-> BlockNameOf(1), start |-> 2, end |-> 4]

\* C15: under the builder convention a block's range ends where the appends made
\* while it was the newest block end: at the stream length for the newest
\* block, at the next block's start for the others.
C15_RangeCoversAppends ==
    \A f \in 1..Len(module) : \A b \in 1..Len(module[f].blocks) :
        module[f].blocks[b].end =
            IF b = Len(module[f].blocks)
            THEN Len(module[f].instructions)
            ELSE module[f].blocks[b + 1].start

====
